---- MODULE Spec2Model ----
(***************************************************************************)
(* Stock prediction service (backend/app.py): a SQLite table stock_prices  *)
(* with UNIQUE(ticker, date), seeded by init_db, written by /add_price and *)
(* read by /predict, /historical/<ticker> and /tickers.                    *)
(*                                                                         *)
(* Prices are IEEE-754 doubles in the program.  A price is held in the     *)
(* model as its integer number of cents c (the double nearest to c/100);   *)
(* the arithmetic of predict_stock_price is carried out on doubles, built  *)
(* from arbitrary-precision naturals, so that round(x, 2) sees the value   *)
(* the program sees.                                                       *)
(***************************************************************************)
EXTENDS Integers, Sequences, FiniteSets, Bags, TLC

(***************************************************************************)
(* Arbitrary-precision naturals: little-endian sequences of limbs in       *)
(* base 2^15, without high zero limbs (the empty sequence is 0).           *)
(***************************************************************************)
LimbBits == 15

Base == 32768

Limb0(a) == IF a = <<>> THEN 0 ELSE Head(a)

Rest0(a) == IF a = <<>> THEN <<>> ELSE Tail(a)

RECURSIVE BigNorm(_)
BigNorm(a) ==
    IF a = <<>> THEN <<>>
    ELSE IF a[Len(a)] = 0 THEN BigNorm(SubSeq(a, 1, Len(a) - 1))
    ELSE a

RECURSIVE BigFromNat(_)
BigFromNat(n) == IF n = 0 THEN <<>> ELSE <<n % Base>> \o BigFromNat(n \div Base)

RECURSIVE BigToNat(_)
BigToNat(a) == IF a = <<>> THEN 0 ELSE Head(a) + Base * BigToNat(Tail(a))

RECURSIVE BigAddC(_, _, _)
BigAddC(a, b, c) ==
    IF a = <<>> /\ b = <<>> THEN (IF c = 0 THEN <<>> ELSE <<c>>)
    ELSE LET s == Limb0(a) + Limb0(b) + c
         IN  <<s % Base>> \o BigAddC(Rest0(a), Rest0(b), s \div Base)

BigAdd(a, b) == BigAddC(a, b, 0)

RECURSIVE BigSubC(_, _, _)
BigSubC(a, b, c) ==
    IF a = <<>> THEN <<>>
    ELSE LET d == Head(a) - Limb0(b) - c
         IN  <<d % Base>> \o BigSubC(Tail(a), Rest0(b), IF d < 0 THEN 1 ELSE 0)

\* a - b for a >= b
BigSub(a, b) == BigNorm(BigSubC(a, b, 0))

RECURSIVE BigLessFrom(_, _, _)
BigLessFrom(a, b, i) ==
    IF i = 0 THEN FALSE
    ELSE IF a[i] # b[i] THEN a[i] < b[i]
    ELSE BigLessFrom(a, b, i - 1)

BigLess(a, b) ==
    IF Len(a) # Len(b) THEN Len(a) < Len(b) ELSE BigLessFrom(a, b, Len(a))

RECURSIVE BigMulSmallC(_, _, _)
BigMulSmallC(a, k, c) ==
    IF a = <<>> THEN (IF c = 0 THEN <<>> ELSE <<c>>)
    ELSE LET s == Head(a) * k + c
         IN  <<s % Base>> \o BigMulSmallC(Tail(a), k, s \div Base)

\* a * k for 0 <= k < Base
BigMulSmall(a, k) == BigNorm(BigMulSmallC(a, k, 0))

RECURSIVE BigMul(_, _)
BigMul(a, b) ==
    IF b = <<>> THEN <<>>
    ELSE BigNorm(BigAdd(BigMulSmall(a, Head(b)), <<0>> \o BigMul(a, Tail(b))))

RECURSIVE BigDivRemSmall(_, _)
\* quotient and remainder of a by k, 0 < k < Base
BigDivRemSmall(a, k) ==
    IF a = <<>> THEN [q |-> <<>>, r |-> 0]
    ELSE LET hi  == BigDivRemSmall(Tail(a), k)
             cur == hi.r * Base + Head(a)
         IN  [q |-> BigNorm(<<cur \div k>> \o hi.q), r |-> cur % k]

RECURSIVE Pow2(_)
Pow2(n) == IF n = 0 THEN 1 ELSE 2 * Pow2(n - 1)

BigShl(a, n) ==
    BigNorm([i \in 1..(n \div LimbBits) |-> 0] \o BigMulSmall(a, Pow2(n % LimbBits)))

BigShr(a, n) ==
    LET k == n \div LimbBits
    IN  IF Len(a) <= k THEN <<>>
        ELSE BigDivRemSmall(SubSeq(a, k + 1, Len(a)), Pow2(n % LimbBits)).q

RECURSIVE BitLenSmall(_)
BitLenSmall(x) == IF x = 0 THEN 0 ELSE 1 + BitLenSmall(x \div 2)

BigBitLen(a) ==
    IF a = <<>> THEN 0 ELSE LimbBits * (Len(a) - 1) + BitLenSmall(a[Len(a)])

BigOdd(a) == a # <<>> /\ a[1] % 2 = 1

\* the integer nearest to n / 2^sh, an exact half going to the even neighbour
\* (or up when sticky says the true value lies above n)
BigRoundShr(n, sh, sticky) ==
    IF sh = 0 THEN n
    ELSE LET q    == BigShr(n, sh)
             rem  == BigSub(n, BigShl(q, sh))
             half == BigShl(<<1>>, sh - 1)
             up   == \/ BigLess(half, rem)
                     \/ rem = half /\ (sticky \/ BigOdd(q))
         IN  IF up THEN BigAdd(q, <<1>>) ELSE q

(***************************************************************************)
(* IEEE-754 binary64 as Python's float: [neg, man, exp] is                 *)
(* (-1)^neg * man * 2^exp with 2^52 <= man < 2^53, or man = 0.  The        *)
(* magnitudes the model reaches are far from overflow and from subnormals. *)
(***************************************************************************)
MantBits == 53

FZero == [neg |-> FALSE, man |-> <<>>, exp |-> 0]

\* the double nearest to (-1)^neg * n * 2^e (round to nearest, ties to even);
\* sticky: the true magnitude is slightly above n * 2^e
FRound(neg, n, e, sticky) ==
    LET len == BigBitLen(n)
    IN  IF len = 0 THEN FZero
        ELSE IF len <= MantBits
        THEN [neg |-> neg, man |-> BigShl(n, MantBits - len), exp |-> e - (MantBits - len)]
        ELSE LET sh == len - MantBits
                 m  == BigRoundShr(n, sh, sticky)
             IN  IF BigBitLen(m) > MantBits
                 THEN [neg |-> neg, man |-> BigShr(m, 1), exp |-> e + sh + 1]
                 ELSE [neg |-> neg, man |-> m, exp |-> e + sh]

\* the double a decimal literal or JSON number n/d denotes (n, d small, d > 0)
FFromRatio(n, d) ==
    LET a  == IF n < 0 THEN -n ELSE n
        qr == BigDivRemSmall(BigShl(BigFromNat(a), 75), d)
    IN  FRound(n < 0, qr.q, -75, qr.r # 0)

FFromInt(n) == FFromRatio(n, 1)

FNeg(x) == IF x.man = <<>> THEN x ELSE [x EXCEPT !.neg = ~x.neg]

\* x + y
FAdd(x, y) ==
    IF x.man = <<>> THEN y
    ELSE IF y.man = <<>> THEN x
    ELSE LET e  == IF x.exp < y.exp THEN x.exp ELSE y.exp
             a  == BigShl(x.man, x.exp - e)
             b  == BigShl(y.man, y.exp - e)
         IN  IF x.neg = y.neg THEN FRound(x.neg, BigAdd(a, b), e, FALSE)
             ELSE IF a = b THEN FZero
             ELSE IF BigLess(a, b) THEN FRound(y.neg, BigSub(b, a), e, FALSE)
             ELSE FRound(x.neg, BigSub(a, b), e, FALSE)

FSub(x, y) == FAdd(x, FNeg(y))

FMul(x, y) ==
    IF x.man = <<>> \/ y.man = <<>> THEN FZero
    ELSE FRound(x.neg # y.neg, BigMul(x.man, y.man), x.exp + y.exp, FALSE)

\* x / k for an integer 0 < k < 2^15 (k is exactly representable)
FDivInt(x, k) ==
    IF x.man = <<>> THEN FZero
    ELSE LET qr == BigDivRemSmall(BigShl(x.man, 20), k)
         IN  FRound(x.neg, qr.q, x.exp - 20, qr.r # 0)

\* round(x, 2), given as the integer number of hundredths of the result:
\* Python rounds the exact binary value of x to the nearest multiple of 0.01,
\* an exact half going to the even neighbour
Round2(x) ==
    IF x.man = <<>> THEN 0
    ELSE LET n == BigMulSmall(x.man, 100)
             m == IF x.exp >= 0 THEN BigShl(n, x.exp) ELSE BigRoundShr(n, -x.exp, FALSE)
         IN  IF x.neg THEN -BigToNat(m) ELSE BigToNat(m)

(***************************************************************************)
(* Strings.  A ticker is a sequence of one-character strings, so that      *)
(* str.upper() and str.strip() are computed character by character.  A     *)
(* date is a TEXT value; SQLite orders TEXT byte-wise, which on the dates   *)
(* of the model is the order of DateOrder.                                 *)
(***************************************************************************)
Chars == {" ", "A", "G", "L", "O", "P", "S", "T", "a", "l", "p"}

\* the code point of a character (ASCII)
CharCode(c) ==
    CASE c = " " -> 32 [] c = "A" -> 65 [] c = "G" -> 71 [] c = "L" -> 76
      [] c = "O" -> 79 [] c = "P" -> 80 [] c = "S" -> 83 [] c = "T" -> 84
      [] c = "a" -> 97 [] c = "l" -> 108 [] c = "p" -> 112

UpperChar(c) ==
    CASE c = "a" -> "A" [] c = "l" -> "L" [] c = "p" -> "P" [] OTHER -> c

\* str.upper()
upper(s) == [i \in 1..Len(s) |-> UpperChar(s[i])]

RECURSIVE lstrip(_)
lstrip(s) == IF s # <<>> /\ Head(s) = " " THEN lstrip(Tail(s)) ELSE s

RECURSIVE rstrip(_)
rstrip(s) ==
    IF s # <<>> /\ s[Len(s)] = " " THEN rstrip(SubSeq(s, 1, Len(s) - 1)) ELSE s

\* str.strip()
strip(s) == rstrip(lstrip(s))

RECURSIVE StrLess(_, _)
\* s < t in the byte-wise order of SQLite's BINARY collation
StrLess(s, t) ==
    IF t = <<>> THEN FALSE
    ELSE IF s = <<>> THEN TRUE
    ELSE IF Head(s) # Head(t) THEN CharCode(Head(s)) < CharCode(Head(t))
    ELSE StrLess(Tail(s), Tail(t))

DateOrder == <<"2024-10-01", "2024-10-02", "2024-10-03", "2024-10-04", "2024-10-05">>

DateRank(d) == CHOOSE i \in 1..Len(DateOrder) : DateOrder[i] = d

DateLess(d, e) == DateRank(d) < DateRank(e)

(***************************************************************************)
(* The table stock_prices.  The id column is read by no statement of the   *)
(* program and is left out: the table is the multiset of its               *)
(* (ticker, date, price) rows, price in cents.                             *)
(***************************************************************************)
Row(t, d, p) == [ticker |-> t, date |-> d, price |-> p]

AAPL == <<"A", "A", "P", "L">>

GOOGL == <<"G", "O", "O", "G", "L">>

TSLA == <<"T", "S", "L", "A">>

sample_data == <<
    Row(AAPL, "2024-10-01", 15025), Row(AAPL, "2024-10-02", 15230),
    Row(AAPL, "2024-10-03", 14875), Row(AAPL, "2024-10-04", 15120),
    Row(GOOGL, "2024-10-01", 275050), Row(GOOGL, "2024-10-02", 278025),
    Row(GOOGL, "2024-10-03", 276575), Row(GOOGL, "2024-10-04", 279030),
    Row(TSLA, "2024-10-01", 24580), Row(TSLA, "2024-10-02", 24890),
    Row(TSLA, "2024-10-03", 24215), Row(TSLA, "2024-10-04", 25045) >>

\* the rows that UNIQUE(ticker, date) sets against a new row r
Conflicts(tbl, r) ==
    {x \in BagToSet(tbl) : x.ticker = r.ticker /\ x.date = r.date}

\* slip: the seeding statement written as INSERT OR REPLACE
InsertOrIgnoreOverwriting(tbl, r) ==
    [x \in DOMAIN tbl \ Conflicts(tbl, r) |-> tbl[x]] (+) SetToBag({r})

\* INSERT OR IGNORE INTO stock_prices: a conflicting row keeps the new one out
InsertOrIgnore(tbl, r) ==
    IF Conflicts(tbl, r) # {} THEN tbl ELSE tbl (+) SetToBag({r})

\* slip: the table declared without UNIQUE(ticker, date)
InsertPlain(tbl, r) == tbl (+) SetToBag({r})

\* slip: the statement of add_price written as INSERT OR IGNORE
InsertOrReplaceKeeping(tbl, r) ==
    IF Conflicts(tbl, r) # {} THEN tbl ELSE tbl (+) SetToBag({r})

\* INSERT OR REPLACE INTO stock_prices: the conflicting rows are deleted first
InsertOrReplace(tbl, r) ==
    [x \in DOMAIN tbl \ Conflicts(tbl, r) |-> tbl[x]] (+) SetToBag({r})

RECURSIVE SeedFrom(_, _)
\* the loop of init_db over sample_data[i..]
SeedFrom(tbl, i) ==
    IF i > Len(sample_data) THEN tbl
    ELSE SeedFrom(InsertOrIgnore(tbl, sample_data[i]), i + 1)

RECURSIVE OrderByDateDesc(_)
\* the rows of a bag as a sequence, ORDER BY date DESC
OrderByDateDesc(b) ==
    IF BagToSet(b) = {} THEN <<>>
    ELSE LET r == CHOOSE x \in BagToSet(b) :
                      \A y \in BagToSet(b) : ~DateLess(x.date, y.date)
         IN  <<r>> \o OrderByDateDesc(b (-) SetToBag({r}))

\* slip: one row more than asked for
LimitInclusive(s, n) == IF n < 0 \/ n + 1 >= Len(s) THEN s ELSE SubSeq(s, 1, n + 1)

\* LIMIT n: a negative n is no limit
Limit(s, n) == IF n < 0 \/ n >= Len(s) THEN s ELSE SubSeq(s, 1, n)

\* SELECT ... FROM stock_prices WHERE ticker = t ORDER BY date DESC LIMIT n
SelectRecent(tbl, t, n) ==
    LET mine == {x \in BagToSet(tbl) : x.ticker = t}
    IN  Limit(OrderByDateDesc([x \in mine |-> tbl[x]]), n)

RECURSIVE SortStr(_)
SortStr(S) ==
    IF S = {} THEN <<>>
    ELSE LET m == CHOOSE x \in S : \A y \in S : ~StrLess(y, x)
         IN  <<m>> \o SortStr(S \ {m})

\* SELECT DISTINCT ticker FROM stock_prices ORDER BY ticker
SelectTickers(tbl) == SortStr({x.ticker : x \in BagToSet(tbl)})

(***************************************************************************)
(* JSON values and request bodies.  A body that is a JSON object is the    *)
(* function from its keys to their values ('ticker' in data is             *)
(* "ticker" \in DOMAIN data); NoJson is a request whose get_json() gives   *)
(* no object (no body, or a body that is not JSON).                        *)
(***************************************************************************)
JStr(s) == [t |-> "str", v |-> s]

JNum(n) == [t |-> "num", v |-> n]

JNull == [t |-> "null", v |-> <<>>]

NoJson == [t |-> "nojson", v |-> <<>>]

EmptyObject == <<>>

IsObject(data) == data # NoJson

\* Python's None in a response, and a number in a field that may be None
None == <<>>

Some(n) == <<n>>

Response(status, body) == [status |-> status, body |-> body]

\* the result of a call that may raise
Returned(v) == [raised |-> FALSE, val |-> v]

Raised == [raised |-> TRUE, val |-> <<>>]

\* the database as a connection sees it
Store(exists, tbl) == [exists |-> exists, rows |-> tbl]

(***************************************************************************)
(* app.py, the functions                                                   *)
(***************************************************************************)
\* get_historical_prices: sqlite3 raises OperationalError without the table
get_historical_prices(store, ticker, days) ==
    IF ~store.exists THEN Raised
    ELSE LET sel == SelectRecent(store.rows, upper(ticker), days)
         IN  Returned([i \in 1..Len(sel) |-> sel[i].price])

\* the double a stored price of c cents is
PriceFloat(c) == FFromRatio(c, 100)

RECURSIVE Floats(_)
\* a list of prices as the list of doubles the SELECT returns
Floats(cents) ==
    IF cents = <<>> THEN <<>> ELSE <<PriceFloat(Head(cents))>> \o Floats(Tail(cents))

RECURSIVE FSumFrom(_, _, _)
FSumFrom(prices, i, acc) ==
    IF i > Len(prices) THEN acc
    ELSE FSumFrom(prices, i + 1, FAdd(acc, prices[i]))

\* sum(prices): 0 + prices[0] + prices[1] + ..., left to right
FSum(prices) == FSumFrom(prices, 1, FFromInt(0))

calculate_moving_average(prices) ==
    IF prices = <<>> THEN FZero ELSE FDivInt(FSum(prices), Len(prices))

trend_factor == FFromRatio(1, 10)

\* slip: the trend taken as the older price minus the newer one
ForecastTrendReversed(ticker, historical_prices) ==
    LET prices          == Floats(historical_prices)
        moving_avg      == calculate_moving_average(prices)
        recent_trend    == FSub(prices[2], prices[1])
        predicted_price == IF Len(historical_prices) >= 2
                           THEN FAdd(moving_avg, FMul(recent_trend, trend_factor))
                           ELSE moving_avg
    IN  [ticker            |-> upper(ticker),
         prediction        |-> Some(Round2(predicted_price)),
         historical_prices |-> historical_prices,
         moving_average    |-> Round2(moving_avg),
         method            |-> "Moving Average (3-day) with Trend Adjustment",
         confidence        |-> "Medium (Rule-based prediction)"]

\* lines 94-113 of predict_stock_price: the result for three or more prices
Forecast(ticker, historical_prices) ==
    LET prices          == Floats(historical_prices)
        moving_avg      == calculate_moving_average(prices)
        recent_trend    == FSub(prices[1], prices[2])
        predicted_price == IF Len(historical_prices) >= 2
                           THEN FAdd(moving_avg, FMul(recent_trend, trend_factor))
                           ELSE moving_avg
    IN  [ticker            |-> upper(ticker),
         prediction        |-> Some(Round2(predicted_price)),
         historical_prices |-> historical_prices,
         moving_average    |-> Round2(moving_avg),
         method            |-> "Moving Average (3-day) with Trend Adjustment",
         confidence        |-> "Medium (Rule-based prediction)"]

\* slip: two prices taken to be enough
predict_stock_price_two(store, ticker) ==
    LET got == get_historical_prices(store, ticker, 3)
    IN  IF got.raised
        THEN [error      |-> <<"Error predicting price for", ticker>>,
              ticker     |-> ticker,
              prediction |-> None]
        ELSE IF Len(got.val) < 2
        THEN [error      |-> <<"Insufficient data for", ticker>>,
              ticker     |-> ticker,
              prediction |-> None]
        ELSE Forecast(ticker, got.val)

predict_stock_price(store, ticker) ==
    LET got == get_historical_prices(store, ticker, 3)
    IN  IF got.raised
        THEN [error      |-> <<"Error predicting price for", ticker>>,
              ticker     |-> ticker,
              prediction |-> None]
        ELSE IF Len(got.val) < 3
        THEN [error      |-> <<"Insufficient data for", ticker>>,
              ticker     |-> ticker,
              prediction |-> None]
        ELSE Forecast(ticker, got.val)

(***************************************************************************)
(* app.py, the routes: each gives the response to one request              *)
(***************************************************************************)
\* slip: the ticker of predict trimmed and not upper-cased
PredictTickerStripOnly(raw) == strip(raw)

\* data['ticker'].strip().upper() of predict
PredictTicker(raw) == upper(strip(raw))

predict(store, data) ==
    IF data = EmptyObject \/ "ticker" \notin DOMAIN data
    THEN Response(400, [error |-> <<"Missing ticker symbol">>])
    ELSE IF data.ticker.t # "str"
    THEN Response(500, [error |-> <<"Internal server error">>])
    ELSE LET ticker == PredictTicker(data.ticker.v)
         IN  IF ticker = <<>>
             THEN Response(400, [error |-> <<"Invalid ticker symbol">>])
             ELSE LET prediction_result == predict_stock_price(store, ticker)
                  IN  IF "error" \in DOMAIN prediction_result
                      THEN Response(404, prediction_result)
                      ELSE Response(200, prediction_result)

\* request.args.get('days', 10, type=int): the argument is <<>> when absent
DaysOf(arg) == IF arg = <<>> THEN 10 ELSE arg[1]

get_historical_data(store, ticker, arg) ==
    IF ~store.exists
    THEN Response(500, [error |-> <<"Error fetching historical data">>])
    ELSE LET sel  == SelectRecent(store.rows, upper(ticker), DaysOf(arg))
             data == [i \in 1..Len(sel) |-> [date |-> sel[i].date, price |-> sel[i].price]]
         IN  Response(200, [ticker          |-> upper(ticker),
                            historical_data |-> data,
                            count           |-> Len(data)])

get_available_tickers(store) ==
    IF ~store.exists
    THEN Response(500, [error |-> <<"Error fetching tickers">>])
    ELSE LET tickers == SelectTickers(store.rows)
         IN  Response(200, [tickers |-> tickers, count |-> Len(tickers)])

required_fields == {"ticker", "date", "price"}

\* float(data['price']): of a number it is the number, of a str its parse
\* (the strings of the model are "" and so not numerals), of None a TypeError
FloatOf(j) == IF j.t = "num" THEN Returned(j.v) ELSE Raised

\* slip: the ticker of add_price stored as it came
AddParamsVerbatim(data) ==
    IF data.ticker.t # "str" THEN Raised
    ELSE LET price == FloatOf(data.price)
         IN  IF price.raised THEN Raised
             ELSE Returned([ticker |-> data.ticker.v,
                            date   |-> data.date,
                            price  |-> price.val])

\* the parameter tuple of line 199
AddParams(data) ==
    IF data.ticker.t # "str" THEN Raised
    ELSE LET price == FloatOf(data.price)
         IN  IF price.raised THEN Raised
             ELSE Returned([ticker |-> upper(data.ticker.v),
                            date   |-> data.date,
                            price  |-> price.val])

AddError == Response(500, [error |-> <<"Error adding stock price">>])

\* add_stock_price up to cursor.execute: a response, or the row to be written
\* (locked: another connection holds the write lock until the timeout)
AddExecute(store, data, locked) ==
    IF ~IsObject(data) THEN [done |-> TRUE, resp |-> AddError, store |-> "unused"]
    ELSE IF ~(required_fields \subseteq DOMAIN data)
    THEN [done  |-> TRUE,
          resp  |-> Response(400, [error |-> <<"Missing required fields: ticker, date, price">>]),
          store |-> "unused"]
    ELSE LET params == AddParams(data)
         IN  IF params.raised THEN [done |-> TRUE, resp |-> AddError, store |-> "unused"]
             ELSE IF ~store.exists \/ params.val.date.t = "null" \/ locked
             THEN [done |-> TRUE, resp |-> AddError, store |-> "failed"]
             ELSE [done |-> FALSE,
                   row  |-> Row(params.val.ticker, params.val.date.v, params.val.price)]

(***************************************************************************)
(* The requests the clients send                                           *)
(***************************************************************************)
aapl == <<"a", "a", "p", "l">>

Blank == <<" ">>

AddPrices == {15390, 15485}

AddBody(t, d, p) == [ticker |-> JStr(t), date |-> JStr(d), price |-> JNum(p)]

\* well-formed bodies of /add_price: AAPL in lower case on a seeded date and,
\* at two prices, on a new date; a ticker of one space on three dates
AddBodies ==
    {AddBody(aapl, "2024-10-04", 15390)}
    \cup {AddBody(aapl, "2024-10-05", p) : p \in AddPrices}
    \cup {AddBody(Blank, d, 15390) : d \in {"2024-10-03", "2024-10-04", "2024-10-05"}}

\* bodies of /add_price that lack a field, or hold a blank or null one
BadAddBodies == <<
    NoJson,
    [ticker |-> JStr(<<"T", "S", "L", "A">>)],
    [ticker |-> JStr(aapl), date |-> JStr("2024-10-05"), price |-> JStr(<<>>)] >>

PredictBodies == <<
    EmptyObject,
    [ticker |-> JStr(Blank)],
    [ticker |-> JStr(aapl)],
    [ticker |-> JStr(AAPL)],
    [ticker |-> JStr(<<" ", "A", "a", "p", "l", " ">>)] >>

MaxDays == 2

\* the days argument of /historical/<ticker>: absent, or an integer
DaysArgs == {<<>>} \cup {<<n>> : n \in -1..MaxDays}

HistoricalRequest(t, a) == [ticker |-> t, days |-> a]

\* the <ticker> segment of the path is never empty (a space is %20)
HistoricalRequests ==
    {HistoricalRequest(aapl, a) : a \in DaysArgs} \cup {HistoricalRequest(Blank, <<>>)}

(***************************************************************************)
(* State                                                                   *)
(***************************************************************************)
VARIABLES
    tableExists,  \* stock_prices has been created
    rows,         \* the committed rows of stock_prices
    lock,         \* who holds SQLite's write lock: "free", "init_db", "add_price"
    txn,          \* the rows as the open write transaction has them
    pending,      \* the body of the /add_price request inside its transaction
    last          \* the last call that ended: its request and its outcome

vars == <<tableExists, rows, lock, txn, pending, last>>

db == Store(tableExists, rows)

\* store: "unused" (the call ended before it touched the database), "ok", "failed"
\* wrote: the call committed a write
Ended(op, req, resp, store, wrote) ==
    [op |-> op, req |-> req, resp |-> resp, store |-> store, wrote |-> wrote]

Access(exists) == IF exists THEN "ok" ELSE "failed"

Init ==
    /\ tableExists = FALSE
    /\ rows = EmptyBag
    /\ lock = "free"
    /\ txn = EmptyBag
    /\ pending = NoJson
    /\ last = Ended("none", <<>>, Response(0, <<>>), "unused", FALSE)

(***************************************************************************)
(* init_db: CREATE TABLE IF NOT EXISTS runs in autocommit; the first       *)
(* INSERT opens the write transaction that conn.commit() ends.  On an      *)
(* existing table the CREATE statement changes nothing, so a run of        *)
(* init_db stands before its INSERTs whenever the table exists, and inside *)
(* its transaction when it holds the write lock.                           *)
(***************************************************************************)
InitDbCreate ==
    /\ ~tableExists
    /\ tableExists' = TRUE
    /\ UNCHANGED <<rows, lock, txn, pending, last>>

\* the loop of INSERT OR IGNORE statements
InitDbSeed ==
    /\ tableExists
    /\ lock = "free"
    /\ lock' = "init_db"
    /\ txn' = SeedFrom(rows, 1)
    /\ UNCHANGED <<tableExists, rows, pending, last>>

\* the write lock is not freed within the timeout: sqlite3.OperationalError
\* leaves init_db
InitDbLocked ==
    /\ tableExists
    /\ lock # "free"
    /\ last' = Ended("init_db", <<>>, Response(-1, <<>>), "failed", FALSE)
    /\ UNCHANGED <<tableExists, rows, lock, txn, pending>>

InitDbCommit ==
    /\ lock = "init_db"
    /\ rows' = txn
    /\ lock' = "free"
    /\ txn' = EmptyBag
    /\ last' = Ended("init_db", <<>>, Response(0, <<>>), "ok", TRUE)
    /\ UNCHANGED <<tableExists, pending>>

(***************************************************************************)
(* The routes                                                              *)
(***************************************************************************)
\* predict reaches the database when the body holds a ticker that is not blank
PredictReads(data) ==
    /\ data # EmptyObject
    /\ "ticker" \in DOMAIN data
    /\ data.ticker.t = "str"
    /\ PredictTicker(data.ticker.v) # <<>>

Predict(data) ==
    /\ last' = Ended("predict", data, predict(db, data),
                     IF PredictReads(data) THEN Access(tableExists) ELSE "unused",
                     FALSE)
    /\ UNCHANGED <<tableExists, rows, lock, txn, pending>>

GetHistoricalData(ticker, arg) ==
    /\ last' = Ended("get_historical_data", HistoricalRequest(ticker, arg),
                     get_historical_data(db, ticker, arg), Access(tableExists), FALSE)
    /\ UNCHANGED <<tableExists, rows, lock, txn, pending>>

GetAvailableTickers ==
    /\ last' = Ended("get_available_tickers", <<>>, get_available_tickers(db),
                     Access(tableExists), FALSE)
    /\ UNCHANGED <<tableExists, rows, lock, txn, pending>>

\* add_stock_price to the end of cursor.execute
AddStockPriceExecute(data) ==
    LET ex == AddExecute(db, data, lock # "free")
    IN  IF ex.done
        THEN /\ last' = Ended("add_stock_price", data, ex.resp, ex.store, FALSE)
             /\ UNCHANGED <<tableExists, rows, lock, txn, pending>>
        ELSE /\ lock' = "add_price"
             /\ txn' = InsertOrReplace(rows, ex.row)
             /\ pending' = data
             /\ UNCHANGED <<tableExists, rows, last>>

\* conn.commit(), conn.close() and the response of add_stock_price
AddStockPriceCommit ==
    /\ lock = "add_price"
    /\ rows' = txn
    /\ lock' = "free"
    /\ txn' = EmptyBag
    /\ pending' = NoJson
    /\ last' = Ended("add_stock_price", pending,
                     Response(200, [message |-> "Stock price added successfully"]),
                     "ok", TRUE)
    /\ UNCHANGED <<tableExists>>

Next ==
    \/ InitDbCreate
    \/ InitDbSeed
    \/ InitDbLocked
    \/ InitDbCommit
    \/ \E i \in 1..Len(PredictBodies) : Predict(PredictBodies[i])
    \/ \E r \in HistoricalRequests : GetHistoricalData(r.ticker, r.days)
    \/ GetAvailableTickers
    \/ \E b \in AddBodies : AddStockPriceExecute(b)
    \/ \E i \in 1..Len(BadAddBodies) : AddStockPriceExecute(BadAddBodies[i])
    \/ AddStockPriceCommit

Spec == Init /\ [][Next]_vars
(***************************************************************************)
(* Vocabulary of the properties, stated without the operators of the model *)
(***************************************************************************)
LowerChars == {"a", "l", "p"}

CasePairs == {{"a", "A"}, {"l", "L"}, {"p", "P"}}

\* no character of t is a lower-case letter
IsUpper(t) == \A i \in 1..Len(t) : t[i] \notin LowerChars

\* s and t are spellings of one ticker that differ at most in letter case
SameUpToCase(s, t) ==
    /\ Len(s) = Len(t)
    /\ \A i \in 1..Len(s) : s[i] = t[i] \/ {s[i], t[i]} \in CasePairs

\* s is raw without the spaces around it, and is not empty
TrimsTo(raw, s) ==
    /\ s # <<>>
    /\ s[1] # " "
    /\ s[Len(s)] # " "
    /\ \E i \in 1..Len(raw) : \E j \in i..Len(raw) :
           /\ s = SubSeq(raw, i, j)
           /\ \A k \in 1..Len(raw) : (k < i \/ k > j) => raw[k] = " "

\* raw is made of spaces only
IsBlank(raw) == \A i \in 1..Len(raw) : raw[i] = " "

\* raw without the spaces around it
Trimmed(raw) ==
    IF IsBlank(raw) THEN <<>>
    ELSE CHOOSE s \in {SubSeq(raw, i, j) : i \in 1..Len(raw), j \in 1..Len(raw)} :
             TrimsTo(raw, s)

\* the number of copies of the row x in tbl
Copies(tbl, x) == IF x \in BagToSet(tbl) THEN tbl[x] ELSE 0

\* the stored observations of the ticker spelled t
ObservationsOf(t) == {x \in BagToSet(rows) : SameUpToCase(x.ticker, t)}

\* the observations of S in descending order of date, as far as S holds one
\* observation per date
NewestFirst(S, seq) ==
    /\ Len(seq) = Cardinality(S)
    /\ \A i \in 1..Len(seq) : seq[i] \in S
    /\ \A i \in 1..Len(seq) : \A j \in 1..Len(seq) :
           i < j => DateLess(seq[j].date, seq[i].date)

Min(a, b) == IF a < b THEN a ELSE b

Abs(a) == IF a < 0 THEN -a ELSE a

AtMostOnePerKey(tbl) ==
    \A x \in BagToSet(tbl) :
        /\ tbl[x] = 1
        /\ \A y \in BagToSet(tbl) : (y.ticker = x.ticker /\ y.date = x.date) => y = x

StoreOps == {"predict", "get_historical_data", "add_stock_price", "get_available_tickers"}

(***************************************************************************)
(* Properties                                                              *)
(***************************************************************************)
\* C1: in every state reached by any interleaving of init_db runs and
\* add_price writes, the table holds at most one row per (ticker, date); the
\* rows of the open write transaction too
UniqueTickerDate == AtMostOnePerKey(rows) /\ AtMostOnePerKey(txn)

\* an add_price for AAPL on 2024-10-05 was refused while another add_price for
\* the same key, at another price, holds the write lock over a stored row of
\* that key
UniqueTickerDateWitness ==
    /\ lock = "add_price"
    /\ pending = AddBody(aapl, "2024-10-05", 15485)
    /\ Row(AAPL, "2024-10-05", 15390) \in BagToSet(rows)
    /\ last.op = "add_stock_price"
    /\ last.req = AddBody(aapl, "2024-10-05", 15390)
    /\ last.store = "failed"

\* C3: a call of predict, historical, add_price or tickers during which the
\* access to the store failed answers with status 500
StoreFailureIs500 ==
    (last.op \in StoreOps /\ last.store = "failed") => last.resp.status = 500

\* a body of add_price that is absent, or lacks a required field, or holds a
\* blank one
Deficient(data) ==
    \/ ~IsObject(data)
    \/ \E f \in required_fields : f \notin DOMAIN data
    \/ data.ticker.t = "str" /\ IsBlank(data.ticker.v)
    \/ data.price.t = "str" /\ IsBlank(data.price.v)
    \/ data.date.t = "str" /\ data.date.v = ""

\* C5: an add_price request without a body, or with a required field missing
\* or blank, is answered with status 400 and writes nothing (calls during
\* which the access to the store failed are left aside)
DeficientAddIs400 ==
    (last.op = "add_stock_price" /\ Deficient(last.req) /\ last.store # "failed") =>
        (last.resp.status = 400 /\ ~last.wrote)

\* C10: every stored ticker is in upper case, and the list that tickers
\* returns holds no two entries that differ only in letter case
StoredTickersUpper ==
    /\ \A x \in BagToSet(rows) : IsUpper(x.ticker)
    /\ (last.op = "get_available_tickers" /\ last.resp.status = 200) =>
           LET tickers == last.resp.body.tickers
           IN  \A i \in 1..Len(tickers) : \A j \in 1..Len(tickers) :
                   i # j => ~SameUpToCase(tickers[i], tickers[j])

\* tickers lists AAPL once, with a row that add_price wrote under the
\* spelling aapl next to the seeded ones
StoredTickersUpperWitness ==
    /\ last.op = "get_available_tickers"
    /\ last.resp.status = 200
    /\ Cardinality({i \in 1..Len(last.resp.body.tickers) :
                        last.resp.body.tickers[i] = AAPL}) = 1
    /\ \E p \in AddPrices : Row(AAPL, "2024-10-05", p) \in BagToSet(rows)
    /\ Row(AAPL, "2024-10-01", 15025) \in BagToSet(rows)

\* the request of the last call was a predict for the ticker spelled raw
PredictOf(raw) == last.op = "predict" /\ last.req = [ticker |-> JStr(raw)]

PredictRaws == {PredictBodies[i].ticker.v : i \in 2..Len(PredictBodies)}

\* n / d rounded to the nearest integer, an exact half going to the even one
HalfEvenDiv(n, d) ==
    LET q == n \div d
        r == n % d
    IN  IF 2 * r < d THEN q
        ELSE IF 2 * r > d THEN q + 1
        ELSE IF q % 2 = 0 THEN q ELSE q + 1

\* seq holds the three newest observations of S, newest first
ThreeNewest(S, seq) ==
    /\ Len(seq) = 3
    /\ NewestFirst({seq[i] : i \in 1..3}, seq)
    /\ \A x \in S : x \in {seq[i] : i \in 1..3} \/ DateLess(x.date, seq[3].date)

\* the body of a response gives the prices p of the three newest observations
\* of S, in cents, and values of moving_average and prediction that, in
\* hundredths, lie within one half of (p0+p1+p2)/3 and of
\* (p0+p1+p2)/3 + (p0-p1)/10 = (13 p0 + 7 p1 + 10 p2)/30
ForecastOf(S, body) ==
    \E x0 \in S : \E x1 \in S : \E x2 \in S :
        /\ ThreeNewest(S, <<x0, x1, x2>>)
        /\ body.historical_prices = <<x0.price, x1.price, x2.price>>
        /\ Abs(3 * body.moving_average - (x0.price + x1.price + x2.price)) <= 1
        /\ body.prediction # None
        /\ Abs(30 * body.prediction[1]
                 - (13 * x0.price + 7 * x1.price + 10 * x2.price)) <= 15

\* as ForecastOf, both values rounded half to even
ForecastHalfEvenOf(S, body) ==
    \E x0 \in S : \E x1 \in S : \E x2 \in S :
        /\ ThreeNewest(S, <<x0, x1, x2>>)
        /\ body.historical_prices = <<x0.price, x1.price, x2.price>>
        /\ body.moving_average = HalfEvenDiv(x0.price + x1.price + x2.price, 3)
        /\ body.prediction =
               Some(HalfEvenDiv(13 * x0.price + 7 * x1.price + 10 * x2.price, 30))

SeededAAPL == {sample_data[i] : i \in 1..4}

\* C2 (amended): a predict for a ticker written without spaces around it that
\* has three or more stored observations returns 200 with the prices of its
\* three newest dates, newest first, and with moving_average and prediction
\* the 2-decimal values nearest to (p0+p1+p2)/3 and (p0+p1+p2)/3 + 0.1(p0-p1),
\* either neighbour at an exact half; on the seeded AAPL rows these are
\* [151.2, 148.75, 152.3], 150.75 and 151.0
PredictIsNearestForecast ==
    \A raw \in PredictRaws :
        (PredictOf(raw) /\ TrimsTo(raw, raw) /\ Cardinality(ObservationsOf(raw)) >= 3) =>
            /\ last.resp.status = 200
            /\ ForecastOf(ObservationsOf(raw), last.resp.body)
            /\ ObservationsOf(raw) = SeededAAPL =>
                   /\ last.resp.body.historical_prices = <<15120, 14875, 15230>>
                   /\ last.resp.body.moving_average = 15075
                   /\ last.resp.body.prediction = Some(15100)

\* predict("aapl") answered 200 on the rows of AAPL 153.9 (2024-10-04,
\* written by add_price), 148.75 and 152.3: the exact forecast 152.165 is
\* returned as 152.17
PredictIsNearestForecastWitness ==
    /\ PredictOf(aapl)
    /\ last.resp.status = 200
    /\ last.resp.body.historical_prices = <<15390, 14875, 15230>>
    /\ last.resp.body.moving_average = 15165
    /\ last.resp.body.prediction = Some(15217)

\* C2 (as claimed): a predict for any ticker that has three or more stored
\* observations returns 200 with the prices of its three newest dates and
\* with moving_average and prediction rounded to 2 decimals
PredictIsRoundedForecast ==
    \A raw \in PredictRaws :
        (PredictOf(raw) /\ Cardinality(ObservationsOf(raw)) >= 3) =>
            /\ last.resp.status = 200
            /\ ForecastHalfEvenOf(ObservationsOf(raw), last.resp.body)

\* C4 (amended): a predict whose ticker, trimmed, is not empty and has fewer
\* than three stored observations returns 404 with prediction null, an error
\* field, and ticker the trimmed ticker in upper case
InsufficientIs404 ==
    \A raw \in PredictRaws :
        (PredictOf(raw) /\ ~IsBlank(raw)
                        /\ Cardinality(ObservationsOf(Trimmed(raw))) < 3) =>
            /\ last.resp.status = 404
            /\ last.resp.body.prediction = None
            /\ "error" \in DOMAIN last.resp.body
            /\ SameUpToCase(last.resp.body.ticker, Trimmed(raw))
            /\ IsUpper(last.resp.body.ticker)

\* predict("aapl") answered 404 with ticker "AAPL" while AAPL had two stored
\* observations
InsufficientIs404Witness ==
    /\ PredictOf(aapl)
    /\ tableExists
    /\ Cardinality(ObservationsOf(aapl)) = 2
    /\ last.resp.status = 404
    /\ last.resp.body.ticker = AAPL

\* C4 (as claimed): a predict for a ticker (not a blank one) with fewer than
\* three stored observations, the store being read without failure, returns
\* 404 with prediction null, an error field, and ticker exactly the ticker of
\* the request
InsufficientEchoesRequest ==
    \A raw \in PredictRaws :
        (PredictOf(raw) /\ ~IsBlank(raw) /\ last.store = "ok"
                        /\ Cardinality(ObservationsOf(raw)) < 3) =>
            /\ last.resp.status = 404
            /\ last.resp.body.prediction = None
            /\ "error" \in DOMAIN last.resp.body
            /\ last.resp.body.ticker = raw

\* the last call was historical for the ticker t with the argument days
HistoricalOf(t, days) ==
    /\ last.op = "get_historical_data"
    /\ last.req = HistoricalRequest(t, days)
    /\ last.resp.status = 200

\* the value of the days parameter: 10 when the request gives none
DaysAsked(days) == IF days = <<>> THEN 10 ELSE days[1]

\* the response lists n observations of S: stored ones, newest first, no
\* stored one left out that is newer than a listed one
ListsNewest(S, body, n) ==
    /\ body.count = n
    /\ Len(body.historical_data) = n
    /\ \E seq \in [1..n -> S] :
           /\ NewestFirst({seq[i] : i \in 1..n}, seq)
           /\ \A x \in S : \A i \in 1..n :
                  x \in {seq[k] : k \in 1..n} \/ DateLess(x.date, seq[i].date)
           /\ body.historical_data =
                  [i \in 1..n |-> [date |-> seq[i].date, price |-> seq[i].price]]

\* C6 (amended): when the store can be read, historical with days >= 0 (10 if
\* absent) returns exactly min(days, stored observations of the ticker)
\* entries, the stored (date, price) rows of the greatest dates, newest first,
\* with count the number of entries; with a negative days, all the stored
\* observations of the ticker
HistoricalIsNewestRows ==
    \A r \in HistoricalRequests :
        HistoricalOf(r.ticker, r.days) =>
            LET S == ObservationsOf(r.ticker)
                n == DaysAsked(r.days)
            IN  ListsNewest(S, last.resp.body,
                            IF n < 0 THEN Cardinality(S) ELSE Min(n, Cardinality(S)))

\* historical/aapl?days=2 listed 2 of the 5 stored observations of AAPL
HistoricalIsNewestRowsWitness ==
    /\ HistoricalOf(aapl, <<2>>)
    /\ Cardinality(ObservationsOf(aapl)) = 5
    /\ last.resp.body.count = 2
    /\ last.resp.body.historical_data[1].date = "2024-10-05"

\* C6 (as claimed): for every integer days, historical returns exactly
\* min(days, stored observations of the ticker) entries
HistoricalIsMinDays ==
    \A r \in HistoricalRequests :
        HistoricalOf(r.ticker, r.days) =>
            Len(last.resp.body.historical_data)
                = Min(DaysAsked(r.days), Cardinality(ObservationsOf(r.ticker)))

\* a step that commits the transaction of add_price
AddPriceCommits == lock = "add_price" /\ lock' = "free"

\* a step that commits the transaction of init_db
InitDbCommits == lock = "init_db" /\ lock' = "free"

InitDbKeepsRows ==
    [][InitDbCommits =>
        /\ \A x \in BagToSet(rows) : Copies(rows', x) = Copies(rows, x)
        /\ \A x \in BagToSet(rows') \ BagToSet(rows) :
               /\ x \in {sample_data[i] : i \in 1..Len(sample_data)}
               /\ rows'[x] = 1
               /\ ~\E y \in BagToSet(rows) : y.ticker = x.ticker /\ y.date = x.date
        /\ \A i \in 1..Len(sample_data) :
               \E x \in BagToSet(rows') :
                   x.ticker = sample_data[i].ticker /\ x.date = sample_data[i].date
        /\ SeedFrom(rows', 1) = rows'
      ]_vars

\* init_db has committed on a table where add_price had set the seed key
\* (AAPL, 2024-10-04) to 153.9: the row is kept and the other seed rows are in
InitDbKeepsRowsWitness ==
    /\ last.op = "init_db"
    /\ last.wrote
    /\ Row(AAPL, "2024-10-04", 15390) \in BagToSet(rows)
    /\ Row(AAPL, "2024-10-04", 15120) \notin BagToSet(rows)
    /\ Row(TSLA, "2024-10-04", 25045) \in BagToSet(rows)

\* spellings of one ticker that differ in letter case only
Spellings == {aapl, AAPL, <<"A", "a", "p", "L">>}

\* C9: in every state of the store, predict answers the spellings of a ticker
\* that differ only in letter case with one and the same response, and the
\* ticker of a 200 response is the trimmed ticker of the request in upper case
PredictIgnoresCase ==
    /\ Cardinality({predict(db, [ticker |-> JStr(t)]) : t \in Spellings}) = 1
    /\ \A raw \in PredictRaws :
           (PredictOf(raw) /\ last.resp.status = 200) =>
               /\ IsUpper(last.resp.body.ticker)
               /\ SameUpToCase(last.resp.body.ticker, Trimmed(raw))

\* predict("aapl") answered 200 with ticker "AAPL" on the seeded rows
PredictIgnoresCaseWitness ==
    /\ PredictOf(aapl)
    /\ last.resp.status = 200
    /\ last.resp.body.ticker = AAPL
    /\ ObservationsOf(aapl) = SeededAAPL
====
